---- MODULE Spec2Model ----
(***************************************************************************)
(* Client-side realtime synchronisation of mokhin-denis/outline:           *)
(* app/components/WebsocketProvider.tsx (connection manager, event         *)
(* dispatcher, the `entities` reconciliation handler) and the resolve and  *)
(* unresolve methods of the Comment model in the same file.                *)
(*                                                                         *)
(* The specifications share the variables:                                 *)
(*   SpecConn        the connection lifecycle, transports and relays       *)
(*   SpecEntities    one `entities` batch run against the entity stores    *)
(*   SpecEvents      collections.delete and documents.permanent_delete     *)
(*   SpecAccess      the handlers that reconsider access                   *)
(*   SpecLifecycle   the create and delete events of the entity types      *)
(*   SpecDeleteRace  a batch with documents.permanent_delete in between    *)
(*   SpecUpdateRace  a batch with documents.update in between              *)
(*   SpecComment     resolve and unresolve of Comment instances            *)
(***************************************************************************)
EXTENDS Integers, Sequences, FiniteSets, TLC

VARIABLES
    \* ---- connection manager (WebsocketProvider fields and environment)
    socket,            \* this.socket: NoSocket or the index of a socket in `sockets`
    sockets,           \* every socket io() has returned, in creation order
    mounted,           \* "constructed" | "mounted" | "unmounted"
    listening,         \* the visibility listener is registered on document
    pageVisible,       \* getPageVisible()
    \* ---- entity stores (this.props)
    documents,         \* documents store: id -> record, DOMAIN = cached ids
    collections,       \* collections store: id -> record
    memberships,       \* memberships store: set of records
    groupMemberships,  \* groupMemberships store: set of records
    policies,          \* policies store: id -> cached Policy, [read |-> abilities.read]
    simpleStores,      \* comments, groups, pins, stars, subscriptions: kind -> (id -> record)
    userMemberships,   \* userMemberships store: set of records
    \* ---- session (this.props.auth)
    team,              \* auth.team
    \* ---- the `entities` handler invocation
    task,              \* locals and position of the async handler
    log,               \* fetches the handler has issued, in order
    \* ---- observation
    lastEvent,         \* the handler that ran last, with its payload and notices
    pre,               \* the stores as they were when the `entities` handler was entered
    before,            \* the stores as they were when the last synchronous handler was entered
    \* ---- Comment instances (class Comment)
    comment            \* id -> [resolvedById, resolvedBy, parentCommentId]

vars == <<socket, sockets, mounted, listening, pageVisible,
          documents, collections, memberships, groupMemberships, policies,
          simpleStores, userMemberships, team, task, log, lastEvent, pre, before,
          comment>>

connVars == <<socket, sockets, mounted, listening, pageVisible>>
storeVars == <<documents, collections, memberships, groupMemberships, policies>>
taskVars == <<task, log>>
syncVars == <<simpleStores, userMemberships, team, before>>

\* ------------------------------------------------------------------ values

NULL == "null"
UNDEF == "undefined"

\* this.socket = null
NoSocket == 0

\* bound: sockets the component may create in one behaviour
MaxSockets == 3

Stores == [documents |-> documents, collections |-> collections,
           memberships |-> memberships, groupMemberships |-> groupMemberships,
           policies |-> policies, simpleStores |-> simpleStores,
           userMemberships |-> userMemberships]

EmptyFcn == [x \in {} |-> x]

\* the entity types whose events only add to and remove from their own store
SimpleKinds == {"comments", "groups", "pins", "stars", "subscriptions"}

\* auth.team.domain: null, or the custom domain of a domain-restricted team
Domains == {NULL, "docs.example.com"}

\* auth.user.id, and the users events may name
CurrentUserId == "u1"
UserIds == {"u1", "u2"}

IdleTask == [pc |-> "idle"]

\* the stores before anything was cached
EmptyStores ==
    [documents |-> EmptyFcn, collections |-> EmptyFcn, memberships |-> {},
     groupMemberships |-> {}, policies |-> EmptyFcn,
     simpleStores |-> [k \in SimpleKinds |-> EmptyFcn], userMemberships |-> {}]

NoEvent == [name |-> "none"]

\* Comment instances and the null of a User reference
CommentIds == {"cm1", "cm2", "cm3"}
NoUser == [null |-> TRUE]

\* a Comment as it is created: unresolved, a reply when it has a parent
NewComment(id, parentCommentId) ==
    [id |-> id, resolvedById |-> NULL, resolvedBy |-> NoUser,
     parentCommentId |-> parentCommentId]

NewComments == [c \in CommentIds |-> NewComment(c, NULL)]

\* ======================================================================
\* Connection manager
\* ======================================================================

\* io(...) returns a socket that is not yet connected; line 84 sets
\* authenticated = false. `signal` records the last of authenticated /
\* unauthorized / teardown seen by the socket's handlers ("none" before any).
\* `transports` is io.opts.transports of the socket.
NewSocket_StartsAuthenticated ==
    [connected |-> FALSE, closed |-> FALSE, authenticated |-> TRUE, signal |-> "none",
     transports |-> {"websocket"}]

NewSocket ==
    [connected |-> FALSE, closed |-> FALSE, authenticated |-> FALSE, signal |-> "none",
     transports |-> {"websocket"}]

\* createConnection: this.socket = io(...)
CreateConnection(ss) == Append(ss, NewSocket)

\* socket.close() / socket.disconnect(): a manual disconnect, after which the
\* socket neither reconnects nor receives packets.
CloseSocket_Forgotten(s) == s

CloseSocket(s) == [s EXCEPT !.closed = TRUE, !.connected = FALSE]

\* socket.disconnected
Disconnected(s) == ~s.connected

\* the guard of checkConnection: this.socket?.disconnected && getPageVisible()
CheckNeeded_IgnoresVisibility(sock, ss, visible) ==
    /\ sock # NoSocket
    /\ Disconnected(ss[sock])

CheckNeeded(sock, ss, visible) ==
    /\ sock # NoSocket
    /\ Disconnected(ss[sock])
    /\ visible

\* checkConnection, run with getPageVisible() = visible
CheckConnection(visible) ==
    IF CheckNeeded(socket, sockets, visible)
    THEN /\ Len(sockets) < MaxSockets
         /\ sockets' = CreateConnection([sockets EXCEPT ![socket] = CloseSocket(@)])
         /\ socket' = Len(sockets) + 1
    ELSE UNCHANGED <<socket, sockets>>

ComponentDidMount ==
    /\ mounted = "constructed"
    /\ Len(sockets) < MaxSockets
    /\ sockets' = CreateConnection(sockets)
    /\ socket' = Len(sockets) + 1
    /\ listening' = TRUE
    /\ mounted' = "mounted"
    /\ lastEvent' = [name |-> "componentDidMount"]
    /\ UNCHANGED <<pageVisible, storeVars, taskVars, syncVars, pre, comment>>

\* componentWillUnmount: the flag is cleared and the socket disconnected when
\* this.socket is set, then the listener is removed. this.socket is not
\* assigned.
ComponentWillUnmount ==
    /\ mounted = "mounted"
    /\ sockets' = IF socket # NoSocket
                  THEN [sockets EXCEPT ![socket] =
                          CloseSocket([@ EXCEPT !.authenticated = FALSE,
                                                !.signal = "teardown"])]
                  ELSE sockets
    /\ socket' = socket
    /\ listening' = FALSE
    /\ mounted' = "unmounted"
    /\ lastEvent' = [name |-> "componentWillUnmount"]
    /\ UNCHANGED <<pageVisible, storeVars, taskVars, syncVars, pre, comment>>

\* the document's visibility changes; a registered listener runs
\* checkConnection
VisibilityChange ==
    /\ pageVisible' = ~pageVisible
    /\ IF listening
       THEN /\ CheckConnection(pageVisible')
            /\ lastEvent' = [name |-> "checkConnection"]
       ELSE /\ UNCHANGED <<socket, sockets>>
            /\ lastEvent' = [name |-> "visibilitychange"]
    /\ UNCHANGED <<mounted, listening, storeVars, taskVars, syncVars, pre, comment>>

\* the transport (re)connects a socket that was not closed by hand
TransportConnect(s) ==
    /\ ~sockets[s].closed
    /\ ~sockets[s].connected
    /\ sockets' = [sockets EXCEPT ![s].connected = TRUE]
    /\ lastEvent' = [name |-> "connect"]
    /\ UNCHANGED <<socket, mounted, listening, pageVisible, storeVars, taskVars, syncVars, pre, comment>>

\* the transport drops
TransportDisconnect(s) ==
    /\ sockets[s].connected
    /\ sockets' = [sockets EXCEPT ![s].connected = FALSE]
    /\ lastEvent' = [name |-> "disconnect"]
    /\ UNCHANGED <<socket, mounted, listening, pageVisible, storeVars, taskVars, syncVars, pre, comment>>

\* "authenticated" arrives on socket s; the handler writes this.socket
OnAuthenticated(s) ==
    /\ sockets[s].connected
    /\ sockets' = IF socket # NoSocket
                  THEN [[sockets EXCEPT ![s].signal = "authenticated"]
                            EXCEPT ![socket].authenticated = TRUE]
                  ELSE [sockets EXCEPT ![s].signal = "authenticated"]
    /\ lastEvent' = [name |-> "authenticated", toast |-> FALSE, thrown |-> FALSE]
    /\ UNCHANGED <<socket, mounted, listening, pageVisible, storeVars, taskVars, syncVars, pre, comment>>

\* "unauthorized" arrives on socket s: flag cleared, toast.error, throw err
OnUnauthorized(s) ==
    /\ sockets[s].connected
    /\ sockets' = IF socket # NoSocket
                  THEN [[sockets EXCEPT ![s].signal = "unauthorized"]
                            EXCEPT ![socket].authenticated = FALSE]
                  ELSE [sockets EXCEPT ![s].signal = "unauthorized"]
    /\ lastEvent' = [name |-> "unauthorized", toast |-> TRUE, thrown |-> TRUE]
    /\ UNCHANGED <<socket, mounted, listening, pageVisible, storeVars, taskVars, syncVars, pre, comment>>

InitConn ==
    /\ socket = NoSocket
    /\ sockets = << >>
    /\ mounted = "constructed"
    /\ listening = FALSE
    /\ pageVisible \in BOOLEAN
    /\ documents = EmptyFcn
    /\ collections = EmptyFcn
    /\ memberships = {}
    /\ groupMemberships = {}
    /\ policies = EmptyFcn
    /\ simpleStores = [k \in SimpleKinds |-> EmptyFcn]
    /\ userMemberships = {}
    /\ task = IdleTask
    /\ log = << >>
    /\ lastEvent = NoEvent
    /\ pre = Stores
    /\ team \in [sharing : {TRUE}, domain : Domains]
    /\ before = Stores
    /\ comment = NewComments

\* ======================================================================
\* Entity stores
\* ======================================================================

DocIds == {"d1", "d2"}
ColIds == {"c1", "c2"}
Titles == {"a", "b"}
Stamps == {"t0", "t1"}

\* bound: descriptors in one `entities` payload
MaxDescriptors == 3

\* record.field of an object that may lack the field
Field(r, f) == IF f \in DOMAIN r THEN r[f] ELSE UNDEF

\* store.get(id)?.field
GetField(store, id, f) == IF id \in DOMAIN store THEN Field(store[id], f) ELSE UNDEF

\* store.add(partial): upsert, the incoming fields overwrite, the others stay
StoreAdd(store, rec) ==
    [x \in DOMAIN store \cup {rec.id} |->
        IF x # rec.id THEN store[x]
        ELSE IF x \in DOMAIN store
             THEN [f \in DOMAIN store[x] \cup DOMAIN rec |->
                      IF f \in DOMAIN rec THEN rec[f] ELSE store[x][f]]
             ELSE rec]

\* store.remove(id)
StoreRemove(store, id) == [x \in DOMAIN store \ {id} |-> store[x]]

\* policies.remove(id) for every id of a set
WithoutPolicies(pol, ids) == [x \in DOMAIN pol \ ids |-> pol[x]]

\* what store.remove(id) of an entity store leaves in the Policy cache: the
\* Policy keyed by the removed identifier goes with the record
WithoutPolicy(pol, id) == WithoutPolicies(pol, {id})

\* store.remove(id) of a store of membership records
RemoveById(set, id) == {m \in set : m.id # id}

\* store.removeAll({ collectionId })
RemoveAll(set, collectionId) == {m \in set : m.collectionId # collectionId}

\* ======================================================================
\* The `entities` handler (lines 130-213)
\* ======================================================================

\* if (event.documentIds) / if (event.collectionIds): an absent list is not
\* iterated
DocumentIds(ev) == IF "documentIds" \in DOMAIN ev THEN ev.documentIds ELSE << >>
CollectionIds(ev) == IF "collectionIds" \in DOMAIN ev THEN ev.collectionIds ELSE << >>

\* lines 141-146: the two `continue` guards of the document loop
DocumentSkipped_NoStampCheck(docs, desc, fetchIfMissing) ==
    \/ desc.id \notin DOMAIN docs /\ ~fetchIfMissing

DocumentSkipped_FetchesMissing(docs, desc, fetchIfMissing) ==
    \/ GetField(docs, desc.id, "updatedAt") = Field(desc, "updatedAt")

DocumentSkipped(docs, desc, fetchIfMissing) ==
    \/ GetField(docs, desc.id, "updatedAt") = Field(desc, "updatedAt")
    \/ desc.id \notin DOMAIN docs /\ ~fetchIfMissing

\* lines 189-194: the two `continue` guards of the collection loop;
\* collection?.documents?.length is falsy for an absent collection and for one
\* with no documents loaded
CollectionSkipped(cols, desc, fetchIfMissing) ==
    \/ GetField(cols, desc.id, "updatedAt") = Field(desc, "updatedAt")
    \/ /\ (desc.id \notin DOMAIN cols \/ cols[desc.id].documents = {})
       /\ ~fetchIfMissing

\* line 197: collection?.fetchDocuments(...) calls nothing when collection is
\* undefined
CollectionFetched(cols, desc, fetchIfMissing) ==
    /\ ~CollectionSkipped(cols, desc, fetchIfMissing)
    /\ desc.id \in DOMAIN cols

\* lines 154-157 and 201-204: err instanceof AuthorizationError || NotFoundError
AbortsBatch_OnlyAuthorization(err) == err = "AuthorizationError"

AbortsBatch_EveryError(err) == TRUE

AbortsBatch(err) == err \in {"AuthorizationError", "NotFoundError"}

Errors == {"AuthorizationError", "NotFoundError", "Error"}

\* the first document descriptor at or after position i that is not skipped
RECURSIVE NextDocument(_, _, _)
NextDocument(ev, docs, i) ==
    IF i > Len(DocumentIds(ev)) THEN i
    ELSE IF DocumentSkipped(docs, DocumentIds(ev)[i], ev.fetchIfMissing)
         THEN NextDocument(ev, docs, i + 1)
         ELSE i

\* the first collection descriptor at or after position j that is fetched
RECURSIVE NextCollection_ReceivedOnly(_, _, _)
NextCollection_ReceivedOnly(ev, cols, j) ==
    IF j > Len(CollectionIds(ev)) THEN j
    ELSE IF /\ "updatedAt" \in DOMAIN CollectionIds(ev)[j]
            /\ CollectionFetched(cols, CollectionIds(ev)[j], ev.fetchIfMissing)
         THEN j
         ELSE NextCollection_ReceivedOnly(ev, cols, j + 1)

RECURSIVE NextCollection(_, _, _)
NextCollection(ev, cols, j) ==
    IF j > Len(CollectionIds(ev)) THEN j
    ELSE IF CollectionFetched(cols, CollectionIds(ev)[j], ev.fetchIfMissing)
         THEN j
         ELSE NextCollection(ev, cols, j + 1)

LogEntry(op, kind, id) == [op |-> op, kind |-> kind, id |-> id]

\* the collection loop from position j up to its next await or its end
RunCollections(ev, cols, j) ==
    LET k == NextCollection(ev, cols, j) IN
    IF k <= Len(CollectionIds(ev))
    THEN [task |-> [pc |-> "awaitCollection", event |-> ev, i |-> 0, j |-> k,
                    previousTitle |-> UNDEF, hadDocument |-> FALSE],
          issued |-> << LogEntry("fetch", "collection", CollectionIds(ev)[k].id) >>]
    ELSE [task |-> [pc |-> "done", event |-> ev, i |-> 0, j |-> k,
                    previousTitle |-> UNDEF, hadDocument |-> FALSE],
          issued |-> << >>]

\* the document loop from position i up to its next await; when the loop
\* ends the handler goes on with the collection loop
RunDocuments(ev, docs, cols, i) ==
    LET k == NextDocument(ev, docs, i) IN
    IF k <= Len(DocumentIds(ev))
    THEN LET id == DocumentIds(ev)[k].id IN
         [task |-> [pc |-> "awaitDocument", event |-> ev, i |-> k, j |-> 0,
                    previousTitle |-> GetField(docs, id, "title"),
                    hadDocument |-> id \in DOMAIN docs],
          issued |-> << LogEntry("fetch", "document", id) >>]
    ELSE RunCollections(ev, cols, 1)

\* find(event.collectionIds, { id })
Existing(list, id) == \E n \in 1..Len(list) : list[n].id = id

\* lines 164-178, given `document` is set: when the title differs from
\* previousTitle, event.collectionIds is created if absent and a descriptor of
\* the document's collection is pushed unless one is there or collectionId is null
WithCollectionOf_NoFind(ev, previousTitle, doc) ==
    IF previousTitle = doc.title THEN ev
    ELSE LET list == CollectionIds(ev)
             pushed == IF doc.collectionId # NULL
                       THEN Append(list, [id |-> doc.collectionId])
                       ELSE list
         IN [f \in DOMAIN ev \cup {"collectionIds"} |->
                IF f = "collectionIds" THEN pushed ELSE ev[f]]

WithCollectionOf(ev, previousTitle, doc) ==
    IF previousTitle = doc.title THEN ev
    ELSE LET list == CollectionIds(ev)
             pushed == IF ~Existing(list, doc.collectionId) /\ doc.collectionId # NULL
                       THEN Append(list, [id |-> doc.collectionId])
                       ELSE list
         IN [f \in DOMAIN ev \cup {"collectionIds"} |->
                IF f = "collectionIds" THEN pushed ELSE ev[f]]

\* lines 205-206: the stores after a collection refetch was refused
CollectionEvicted_KeepsMemberships(cols, mems, collectionId) ==
    [collections |-> StoreRemove(cols, collectionId), memberships |-> mems]

CollectionEvicted(cols, mems, collectionId) ==
    [collections |-> StoreRemove(cols, collectionId),
     memberships |-> RemoveAll(mems, collectionId)]

\* ---- payloads and server answers

Descriptors(ids) == [id : ids, updatedAt : Stamps]

\* lists of n descriptors, no id twice
DescriptorLists(ids, n) ==
    {l \in [1..n -> Descriptors(ids)] : \A a, b \in 1..n : a # b => l[a].id # l[b].id}

\* payloads with nd document descriptors and nc collection descriptors; a
\* payload without descriptors of a kind leaves the field out
EntitiesEventsOf(nd, nc) ==
    IF nd > 0 /\ nc > 0
    THEN [documentIds : DescriptorLists(DocIds, nd),
          collectionIds : DescriptorLists(ColIds, nc), fetchIfMissing : BOOLEAN]
    ELSE IF nd > 0
    THEN [documentIds : DescriptorLists(DocIds, nd), fetchIfMissing : BOOLEAN]
    ELSE [collectionIds : DescriptorLists(ColIds, nc), fetchIfMissing : BOOLEAN]

\* every payload of at most MaxDescriptors descriptors
EntitiesEvents ==
    UNION {EntitiesEventsOf(nd, nc) :
             <<nd, nc>> \in {p \in (0..Cardinality(DocIds)) \X (0..Cardinality(ColIds)) :
                               p[1] + p[2] \in 1..MaxDescriptors}}

\* what the server may return for documents.fetch(id, { force: true }): its
\* latest version of the document, with any title, in any collection or none
ServerDocuments(id) ==
    [id : {id}, title : Titles, updatedAt : {"t1"}, collectionId : ColIds \cup {NULL},
     publishedAt : {"t0"}, deletedAt : {NULL}]

\* what the server may return for collection.fetchDocuments({ force: true })
ServerDocumentLists == {{"d1"}}

\* ---- the handler's steps: from its entry or an await to the next await

\* the handler is entered with a payload and runs to its first await
OnEntities(ev) ==
    /\ task.pc = "idle"
    /\ LET r == RunDocuments(ev, documents, collections, 1) IN
       /\ task' = r.task
       /\ log' = log \o r.issued
    /\ lastEvent' = [name |-> "entities", event |-> ev]
    /\ pre' = Stores
    /\ UNCHANGED <<connVars, syncVars, storeVars, comment>>

\* documents.fetch resolves: the store holds the fetched record (the fetch
\* adds it), `document` is the fetched record
DocumentFetched_UnlessRemoved(doc) ==
    /\ task.pc = "awaitDocument"
    /\ doc.id = DocumentIds(task.event)[task.i].id
    /\ LET docs == IF task.hadDocument /\ doc.id \notin DOMAIN documents
                   THEN documents
                   ELSE StoreAdd(documents, doc)
           ev == WithCollectionOf(task.event, task.previousTitle, doc)
           r == RunDocuments(ev, docs, collections, task.i + 1)
       IN /\ documents' = docs
          /\ task' = r.task
          /\ log' = log \o << LogEntry("resolved", "document", doc.id) @@
                               [title |-> doc.title, collectionId |-> doc.collectionId,
                                document |-> doc] >>
                        \o r.issued
    /\ UNCHANGED <<connVars, syncVars, collections, memberships, groupMemberships, policies,
                   lastEvent, pre, comment>>

DocumentFetched(doc) ==
    /\ task.pc = "awaitDocument"
    /\ doc.id = DocumentIds(task.event)[task.i].id
    /\ LET docs == StoreAdd(documents, doc)
           ev == WithCollectionOf(task.event, task.previousTitle, doc)
           r == RunDocuments(ev, docs, collections, task.i + 1)
       IN /\ documents' = docs
          /\ task' = r.task
          /\ log' = log \o << LogEntry("resolved", "document", doc.id) @@
                               [title |-> doc.title, collectionId |-> doc.collectionId,
                                document |-> doc] >>
                        \o r.issued
    /\ UNCHANGED <<connVars, syncVars, collections, memberships, groupMemberships, policies,
                   lastEvent, pre, comment>>

\* documents.fetch rejects with err; the catch block (lines 153-161) shows no
\* notice and rethrows nothing, whatever the error
DocumentFetchFailed(err) ==
    /\ task.pc = "awaitDocument"
    /\ LET id == DocumentIds(task.event)[task.i].id
           rejected == LogEntry("rejected", "document", id) @@
                          [err |-> err, toast |-> FALSE, thrown |-> FALSE]
       IN IF AbortsBatch(err)
          THEN /\ documents' = StoreRemove(documents, id)
               /\ policies' = WithoutPolicy(policies, id)
               /\ task' = [task EXCEPT !.pc = "done"]
               /\ log' = Append(log, rejected)
          ELSE \* swallowed: `document` is still the record read before the
               \* await, if there was one
               LET ev == IF task.hadDocument /\ id \in DOMAIN documents
                         THEN WithCollectionOf(task.event, task.previousTitle,
                                               documents[id])
                         ELSE task.event
                   r == RunDocuments(ev, documents, collections, task.i + 1)
               IN /\ UNCHANGED <<documents, policies>>
                  /\ task' = r.task
                  /\ log' = Append(log, rejected) \o r.issued
    /\ UNCHANGED <<connVars, syncVars, collections, memberships, groupMemberships,
                   lastEvent, pre, comment>>

\* collection.fetchDocuments resolves with the collection's document list
CollectionDocumentsFetched(list) ==
    /\ task.pc = "awaitCollection"
    /\ LET id == CollectionIds(task.event)[task.j].id
           cols == IF id \in DOMAIN collections
                   THEN [collections EXCEPT ![id].documents = list]
                   ELSE collections
           r == RunCollections(task.event, cols, task.j + 1)
       IN /\ collections' = cols
          /\ task' = r.task
          /\ log' = log \o << LogEntry("resolved", "collection", id) >> \o r.issued
    /\ UNCHANGED <<connVars, syncVars, documents, memberships, groupMemberships, policies,
                   lastEvent, pre, comment>>

\* collection.fetchDocuments rejects with err; the catch block (lines 200-208)
\* shows no notice and rethrows nothing, whatever the error
CollectionFetchFailed(err) ==
    /\ task.pc = "awaitCollection"
    /\ LET id == CollectionIds(task.event)[task.j].id
           rejected == LogEntry("rejected", "collection", id) @@
                          [err |-> err, toast |-> FALSE, thrown |-> FALSE]
       IN IF AbortsBatch(err)
          THEN LET after == CollectionEvicted(collections, memberships, id) IN
               /\ collections' = after.collections
               /\ memberships' = after.memberships
               /\ policies' = WithoutPolicy(policies, id)
               /\ task' = [task EXCEPT !.pc = "done"]
               /\ log' = Append(log, rejected)
          ELSE LET r == RunCollections(task.event, collections, task.j + 1) IN
               /\ UNCHANGED <<collections, memberships, policies>>
               /\ task' = r.task
               /\ log' = Append(log, rejected) \o r.issued
    /\ UNCHANGED <<connVars, syncVars, documents, groupMemberships, lastEvent, pre, comment>>

\* ---- stores the batch may meet

CachedDocument(id) ==
    [id |-> id, title |-> "a", updatedAt |-> "t0", collectionId |-> "c1",
     publishedAt |-> "t0", deletedAt |-> NULL]

CachedCollection(id, docs) == [id |-> id, updatedAt |-> "t0", documents |-> docs]

InitEntities ==
    /\ socket = NoSocket
    /\ sockets = << >>
    /\ mounted = "constructed"
    /\ listening = FALSE
    /\ pageVisible = TRUE
    /\ \E cached \in SUBSET DocIds :
         documents = [d \in cached |-> CachedDocument(d)]
    /\ \E cached \in SUBSET ColIds :
         collections \in {f \in [cached -> UNION {{CachedCollection(c, l) : l \in {{}, {"d1"}}} : c \in ColIds}] :
                          \A c \in cached : f[c].id = c}
    /\ memberships = {[id |-> "m1", collectionId |-> "c1"], [id |-> "m2", collectionId |-> "c2"]}
    /\ groupMemberships = {[id |-> "g1", collectionId |-> "c1"]}
    /\ policies = EmptyFcn
    /\ simpleStores = [k \in SimpleKinds |-> EmptyFcn]
    /\ userMemberships = {}
    /\ task = IdleTask
    /\ log = << >>
    /\ lastEvent = NoEvent
    /\ pre = Stores
    /\ team = [sharing |-> TRUE, domain |-> NULL]
    /\ before = Stores
    /\ comment = NewComments

NextEntities ==
    \/ \E ev \in EntitiesEvents : OnEntities(ev)
    \/ \E id \in DocIds : \E doc \in ServerDocuments(id) : DocumentFetched(doc)
    \/ \E err \in Errors : DocumentFetchFailed(err)
    \/ \E list \in ServerDocumentLists : CollectionDocumentsFetched(list)
    \/ \E err \in Errors : CollectionFetchFailed(err)

SpecEntities == InitEntities /\ [][NextEntities]_vars

\* ======================================================================
\* Synchronous entity event handlers
\* ======================================================================

\* new Date().toISOString() in a handler
Now == "now"

\* documents.inCollection(collectionId)
InCollection(docs, collectionId) ==
    {d \in DOMAIN docs : docs[d].collectionId = collectionId}

\* lines 348-356: what collections.delete does to one document of the collection
Detached(doc) ==
    IF doc.publishedAt = NULL
    THEN [doc EXCEPT !.collectionId = NULL]
    ELSE [doc EXCEPT !.deletedAt = Now]

\* the name an event of an entity type is dispatched under
EventName(kind, op) == kind \o "." \o op

\* the store of an entity type in a snapshot of the stores
StoreOf(stores, kind) ==
    IF kind = "collections" THEN stores.collections ELSE stores.simpleStores[kind]

\* the handler that ran last was the create of `id`, which its store did not
\* hold
Created(kind, id) ==
    /\ lastEvent.name = EventName(kind, "create")
    /\ lastEvent.event.id = id
    /\ id \notin DOMAIN StoreOf(before, kind)

\* "collections.delete" (lines 342-360). `undoes` notes that the handler ran
\* right after the create of the same collection.
OnCollectionsDelete(collectionId) ==
    /\ LET deletedDocuments == InCollection(documents, collectionId) IN
       /\ documents' = [d \in DOMAIN documents |->
                          IF d \in deletedDocuments THEN Detached(documents[d])
                          ELSE documents[d]]
       /\ policies' = WithoutPolicy(WithoutPolicies(policies, deletedDocuments),
                                    collectionId)
    /\ memberships' = RemoveAll(memberships, collectionId)
    /\ collections' = StoreRemove(collections, collectionId)
    /\ lastEvent' = [name |-> "collections.delete", modelId |-> collectionId,
                     undoes |-> Created("collections", collectionId)]
    /\ before' = Stores
    /\ UNCHANGED <<connVars, groupMemberships, simpleStores, userMemberships, team,
                   taskVars, pre, comment>>

\* the document whose refetch the `entities` handler is suspended on
Awaiting ==
    IF task.pc = "awaitDocument" THEN DocumentIds(task.event)[task.i].id ELSE "none"

\* "documents.permanent_delete" (lines 258-263). `awaiting` notes where the
\* `entities` handler stood when this handler ran.
OnDocumentsPermanentDelete(documentId) ==
    /\ documents' = StoreRemove(documents, documentId)
    /\ policies' = WithoutPolicy(policies, documentId)
    /\ lastEvent' = [name |-> "documents.permanent_delete", modelId |-> documentId,
                     awaiting |-> Awaiting]
    /\ before' = Stores
    /\ UNCHANGED <<connVars, collections, memberships, groupMemberships, simpleStores,
                   userMemberships, team, taskVars, pre, comment>>

\* documents the stores may hold: in a collection, draft or published
HeldDocuments(id) ==
    [id : {id}, title : {"a"}, updatedAt : {"t0"}, collectionId : ColIds,
     publishedAt : {NULL, "t0"}, deletedAt : {NULL}]

InitEvents ==
    /\ socket = NoSocket
    /\ sockets = << >>
    /\ mounted = "constructed"
    /\ listening = FALSE
    /\ pageVisible = TRUE
    /\ \E held \in SUBSET DocIds :
         documents \in {f \in [held -> UNION {HeldDocuments(d) : d \in DocIds}] :
                          \A d \in held : f[d].id = d}
    /\ \E held \in SUBSET ColIds :
         collections = [c \in held |-> CachedCollection(c, {})]
    /\ memberships \in SUBSET {[id |-> "m1", collectionId |-> "c1"],
                               [id |-> "m2", collectionId |-> "c2"]}
    /\ groupMemberships \in SUBSET {[id |-> "g1", collectionId |-> "c1"],
                                    [id |-> "g2", collectionId |-> "c2"]}
    /\ \E cached \in SUBSET DocIds : policies = [x \in cached |-> [read |-> TRUE]]
    /\ simpleStores = [k \in SimpleKinds |-> EmptyFcn]
    /\ userMemberships = {}
    /\ team = [sharing |-> TRUE, domain |-> NULL]
    /\ task = IdleTask
    /\ log = << >>
    /\ lastEvent = NoEvent
    /\ pre = EmptyStores
    /\ before = EmptyStores
    /\ comment = NewComments

NextEvents ==
    \/ \E c \in ColIds : OnCollectionsDelete(c)
    \/ \E d \in DocIds : OnDocumentsPermanentDelete(d)

SpecEvents == InitEvents /\ [][NextEvents]_vars

\* ======================================================================
\* Handlers that reconsider access (SpecAccess)
\* ======================================================================

\* documents.all
AllDocuments(docs) == DOMAIN docs

\* team.updateData(event): the fields of the event overwrite the team's
UpdateData(t, event) ==
    [f \in DOMAIN t |-> IF f \in DOMAIN event THEN event[f] ELSE t[f]]

\* line 363: "sharing" in event && event.sharing !== auth.team?.sharing
SharingChanged_AnyShared(event, t) == "sharing" \in DOMAIN event

SharingChanged(event, t) ==
    /\ "sharing" \in DOMAIN event
    /\ event.sharing # t.sharing

\* "teams.update" (lines 362-370)
OnTeamsUpdate(event) ==
    /\ policies' = IF SharingChanged(event, team)
                   THEN WithoutPolicies(policies, AllDocuments(documents))
                   ELSE policies
    /\ team' = UpdateData(team, event)
    /\ lastEvent' = [name |-> "teams.update", event |-> event]
    /\ before' = Stores
    /\ UNCHANGED <<connVars, documents, collections, memberships, groupMemberships,
                   simpleStores, userMemberships, taskVars, pre, comment>>

\* payloads of teams.update: PartialWithId<Team>
TeamsUpdateEvents ==
    {[id |-> "team"]}
        \cup {[id |-> "team", sharing |-> b] : b \in BOOLEAN}
        \cup {[id |-> "team", domain |-> x] : x \in Domains}

\* bound: entries of `log` in one behaviour of SpecAccess
MaxRequests == 1

\* line 501: event.id === auth.user?.id
Demoted_Anyone(event) == TRUE

Demoted(event) == event.id = CurrentUserId

\* "users.demote" (lines 500-505), up to its await of collections.fetchAll
OnUsersDemote(event) ==
    /\ IF Demoted(event)
       THEN /\ Len(log) < MaxRequests
            /\ policies' = WithoutPolicies(policies, AllDocuments(documents))
            /\ log' = Append(log, LogEntry("fetch", "collections", "all"))
       ELSE UNCHANGED <<policies, log>>
    /\ lastEvent' = [name |-> "users.demote", event |-> event]
    /\ before' = Stores
    /\ UNCHANGED <<connVars, documents, collections, memberships, groupMemberships,
                   simpleStores, userMemberships, team, task, pre, comment>>

\* requests of collections.fetchAll that have not resolved
PendingFetchAll ==
    Cardinality({n \in 1..Len(log) : log[n] = LogEntry("fetch", "collections", "all")})
      > Cardinality({n \in 1..Len(log) : log[n] = LogEntry("resolved", "collections", "all")})

\* collections.fetchAll resolves: the store holds the listed collections
AllCollectionsFetched(list) ==
    /\ PendingFetchAll
    /\ collections' = [c \in DOMAIN collections \cup list |->
                          IF c \in list
                          THEN StoreAdd(collections, CachedCollection(c, {}))[c]
                          ELSE collections[c]]
    /\ log' = Append(log, LogEntry("resolved", "collections", "all"))
    /\ lastEvent' = [name |-> "collections.fetchAll"]
    /\ UNCHANGED <<connVars, documents, memberships, groupMemberships, policies,
                   syncVars, task, pre, comment>>

\* document.childDocuments
ChildDocuments(docs, id) ==
    {d \in DOMAIN docs : Field(docs[d], "parentDocumentId") = id}

\* policy && policy.abilities.read === false
ReadRevoked_OrAbsent(pol, id) == id \notin DOMAIN pol \/ pol[id].read = FALSE

ReadRevoked(pol, id) == id \in DOMAIN pol /\ pol[id].read = FALSE

\* "documents.remove_user" (lines 283-300)
OnDocumentsRemoveUser(event) ==
    /\ userMemberships' = RemoveById(userMemberships, event.id)
    /\ LET unlisted == WithoutPolicy(policies, event.id)
           invalidated ==
               IF event.userId = CurrentUserId /\ event.documentId \in DOMAIN documents
               THEN WithoutPolicies(unlisted, ChildDocuments(documents, event.documentId))
               ELSE unlisted
       IN IF ReadRevoked(invalidated, event.documentId)
          THEN /\ documents' = StoreRemove(documents, event.documentId)
               /\ policies' = WithoutPolicy(invalidated, event.documentId)
          ELSE /\ documents' = documents
               /\ policies' = invalidated
    /\ lastEvent' = [name |-> "documents.remove_user", event |-> event]
    /\ before' = Stores
    /\ UNCHANGED <<connVars, collections, memberships, groupMemberships, simpleStores,
                   team, taskVars, pre, comment>>

\* "collections.remove_user" (lines 424-431)
OnCollectionsRemoveUser(event) ==
    /\ memberships' = RemoveById(memberships, event.id)
    /\ LET unlisted == WithoutPolicy(policies, event.id) IN
       IF ReadRevoked(unlisted, event.collectionId)
       THEN /\ collections' = StoreRemove(collections, event.collectionId)
            /\ policies' = WithoutPolicy(unlisted, event.collectionId)
       ELSE /\ collections' = collections
            /\ policies' = unlisted
    /\ lastEvent' = [name |-> "collections.remove_user", event |-> event]
    /\ before' = Stores
    /\ UNCHANGED <<connVars, documents, groupMemberships, simpleStores, userMemberships,
                   team, taskVars, pre, comment>>

\* "collections.remove_group" (lines 438-448)
OnCollectionsRemoveGroup(event) ==
    /\ groupMemberships' = RemoveById(groupMemberships, event.id)
    /\ LET unlisted == WithoutPolicy(policies, event.id) IN
       IF ReadRevoked(unlisted, event.collectionId)
       THEN /\ collections' = StoreRemove(collections, event.collectionId)
            /\ policies' = WithoutPolicy(unlisted, event.collectionId)
       ELSE /\ collections' = collections
            /\ policies' = unlisted
    /\ lastEvent' = [name |-> "collections.remove_group", event |-> event]
    /\ before' = Stores
    /\ UNCHANGED <<connVars, documents, memberships, simpleStores, userMemberships,
                   team, taskVars, pre, comment>>

\* ---- payloads and stores of SpecAccess

UsersDemoteEvents == {[id |-> u] : u \in UserIds}

DocumentsRemoveUserEvents == [id : {"um1"}, userId : UserIds, documentId : DocIds]

CollectionsRemoveUserEvents == [id : {"m1"}, userId : UserIds, collectionId : ColIds]

CollectionsRemoveGroupEvents == [id : {"g1"}, groupId : {"grp1"}, collectionId : ColIds]

\* what collections.fetchAll may answer
ServerCollectionLists == {{"c1"}}

\* a cached document with its place in the document tree
NestedDocument(id, parent) == CachedDocument(id) @@ [parentDocumentId |-> parent]

\* the Policy caches the handlers may meet: d1 and c1 readable, unreadable or
\* without a Policy, d2 readable or without a Policy
CachedPolicies ==
    UNION {[keys -> [read : BOOLEAN]] : keys \in SUBSET {"d1", "d2", "c1"}}

InitAccess ==
    /\ socket = NoSocket
    /\ sockets = << >>
    /\ mounted = "constructed"
    /\ listening = FALSE
    /\ pageVisible = TRUE
    /\ \E held \in SUBSET DocIds : \E parent \in {NULL, "d1"} :
         documents = [d \in held |-> NestedDocument(d, IF d = "d2" THEN parent ELSE NULL)]
    /\ \E held \in SUBSET {"c1"} :
         collections = [c \in held |-> CachedCollection(c, {})]
    /\ memberships \in SUBSET {[id |-> "m1", collectionId |-> "c1"]}
    /\ groupMemberships \in SUBSET {[id |-> "g1", collectionId |-> "c1"]}
    /\ policies \in {pol \in CachedPolicies : "d2" \in DOMAIN pol => pol["d2"].read}
    /\ simpleStores = [k \in SimpleKinds |-> EmptyFcn]
    /\ userMemberships \in SUBSET {[id |-> "um1", userId |-> "u1", documentId |-> "d1"]}
    /\ team = [sharing |-> TRUE, domain |-> NULL]
    /\ task = IdleTask
    /\ log = << >>
    /\ lastEvent = NoEvent
    /\ pre = EmptyStores
    /\ before = EmptyStores
    /\ comment = NewComments

NextAccess ==
    \/ \E ev \in {e \in TeamsUpdateEvents : "domain" \notin DOMAIN e} : OnTeamsUpdate(ev)
    \/ \E ev \in UsersDemoteEvents : OnUsersDemote(ev)
    \/ \E list \in ServerCollectionLists : AllCollectionsFetched(list)
    \/ \E ev \in DocumentsRemoveUserEvents : OnDocumentsRemoveUser(ev)
    \/ \E ev \in CollectionsRemoveUserEvents : OnCollectionsRemoveUser(ev)
    \/ \E ev \in CollectionsRemoveGroupEvents : OnCollectionsRemoveGroup(ev)

SpecAccess == InitAccess /\ [][NextAccess]_vars

\* C11: a teams.update whose `sharing` differs from the team's removes the
\* cached Policy of every document the document store holds and no other
\* Policy; without a `sharing` field, or with an unchanged value, it removes
\* no Policy.
C11_SharingChangeEvictsDocumentPolicies ==
    [][lastEvent'.name = "teams.update" =>
         LET ev == lastEvent'.event IN
         IF "sharing" \in DOMAIN ev /\ ev.sharing # team.sharing
         THEN /\ \A d \in DOMAIN documents : d \notin DOMAIN policies'
              /\ \A x \in DOMAIN policies \ DOMAIN documents :
                     x \in DOMAIN policies' /\ policies'[x] = policies[x]
         ELSE policies' = policies]_vars

C11_Witness ==
    /\ lastEvent.name = "teams.update"
    /\ "sharing" \in DOMAIN lastEvent.event
    /\ \E d \in DOMAIN documents :
          d \in DOMAIN before.policies /\ d \notin DOMAIN policies

\* C12: users.demote for the session's own user removes the cached Policy of
\* every held document and requests all collections again; for any other
\* user it changes no store and issues no request.
C12_DemoteOfCurrentUserOnly ==
    [][lastEvent'.name = "users.demote" =>
         IF lastEvent'.event.id = CurrentUserId
         THEN /\ \A d \in DOMAIN documents : d \notin DOMAIN policies'
              /\ \A x \in DOMAIN policies \ DOMAIN documents :
                     x \in DOMAIN policies' /\ policies'[x] = policies[x]
              /\ log' = Append(log, LogEntry("fetch", "collections", "all"))
         ELSE /\ Stores' = Stores
              /\ log' = log]_vars

C12_Witness ==
    /\ lastEvent.name = "users.demote"
    /\ lastEvent.event.id = CurrentUserId
    /\ Len(log) > 0
    /\ log[Len(log)] = LogEntry("fetch", "collections", "all")
    /\ \E d \in DOMAIN documents :
          d \in DOMAIN before.policies /\ d \notin DOMAIN policies

\* C14: documents.remove_user, collections.remove_user and
\* collections.remove_group remove the document or collection they name only
\* when a Policy is cached for it and its read ability is false; when no
\* Policy is cached for it the store keeps it as it was.
C14_NoPolicyIsNotLossOfAccess ==
    [][lastEvent'.name \in {"documents.remove_user", "collections.remove_user",
                            "collections.remove_group"} =>
         LET ev == lastEvent'.event
             ofDocument == lastEvent'.name = "documents.remove_user"
             id == IF ofDocument THEN ev.documentId ELSE ev.collectionId
             held == IF ofDocument THEN documents ELSE collections
             kept == IF ofDocument THEN documents' ELSE collections'
         IN /\ (id \in DOMAIN held /\ id \notin DOMAIN kept)
                  => (id \in DOMAIN policies /\ policies[id].read = FALSE)
            /\ id \notin DOMAIN policies => kept = held]_vars

C14_Witness ==
    /\ lastEvent.name = "documents.remove_user"
    /\ lastEvent.event.documentId \in DOMAIN documents
    /\ lastEvent.event.documentId \notin DOMAIN before.policies
    /\ \E m \in before.userMemberships : m \notin userMemberships

\* ======================================================================
\* Create and delete events (SpecLifecycle)
\* ======================================================================

\* <kind>.add(event)
SimpleAdded_IntoStars(stores, kind, event) ==
    [stores EXCEPT !["stars"] = StoreAdd(@, event)]

SimpleAdded(stores, kind, event) == [stores EXCEPT ![kind] = StoreAdd(@, event)]

\* "<kind>.create" of comments, groups, pins, stars, subscriptions
\* (lines 302-304, 314-316, 386-388, 398-400, 482-487)
OnSimpleCreate(kind, event) ==
    /\ simpleStores' = SimpleAdded(simpleStores, kind, event)
    /\ lastEvent' = [name |-> EventName(kind, "create"), event |-> event]
    /\ before' = Stores
    /\ UNCHANGED <<connVars, documents, collections, memberships, groupMemberships,
                   policies, userMemberships, team, taskVars, pre, comment>>

\* <kind>.remove(event.modelId)
SimpleRemoved_FromComments(stores, kind, id) ==
    [stores EXCEPT !["comments"] = StoreRemove(@, id)]

SimpleRemoved(stores, kind, id) == [stores EXCEPT ![kind] = StoreRemove(@, id)]

\* "<kind>.delete" of comments, groups, pins, stars, subscriptions
\* (lines 310-312, 322-324, 394-396, 406-408, 489-494)
OnSimpleDelete(kind, modelId) ==
    /\ simpleStores' = SimpleRemoved(simpleStores, kind, modelId)
    /\ policies' = WithoutPolicy(policies, modelId)
    /\ lastEvent' = [name |-> EventName(kind, "delete"), modelId |-> modelId,
                     undoes |-> Created(kind, modelId)]
    /\ before' = Stores
    /\ UNCHANGED <<connVars, documents, collections, memberships, groupMemberships,
                   userMemberships, team, taskVars, pre, comment>>

\* "collections.create" (lines 334-336)
OnCollectionsCreate(event) ==
    /\ collections' = StoreAdd(collections, event)
    /\ lastEvent' = [name |-> "collections.create", event |-> event]
    /\ before' = Stores
    /\ UNCHANGED <<connVars, documents, memberships, groupMemberships, policies,
                   simpleStores, userMemberships, team, taskVars, pre, comment>>

\* ---- payloads and stores of SpecLifecycle

\* the identifier the records of each simple entity type carry
SimpleId ==
    [comments |-> "cm1", groups |-> "gr1", pins |-> "pn1", stars |-> "st1",
     subscriptions |-> "sb1"]

\* PartialWithId<...> of a create event
SimpleRecord(kind) == [id |-> SimpleId[kind], data |-> "v1"]

CollectionsCreateEvents == {CachedCollection(c, {}) : c \in {"c1"}}

\* d1, when held, is a draft or a published document of c1
LifecycleDocuments ==
    {EmptyFcn} \cup {[d \in {"d1"} |-> doc] : doc \in {h \in HeldDocuments("d1") :
                                                       h.collectionId = "c1"}}

InitLifecycle ==
    /\ socket = NoSocket
    /\ sockets = << >>
    /\ mounted = "constructed"
    /\ listening = FALSE
    /\ pageVisible = TRUE
    /\ documents \in LifecycleDocuments
    /\ \E held \in SUBSET {"c1"} :
         collections = [c \in held |-> CachedCollection(c, {})]
    /\ memberships \in SUBSET {[id |-> "m1", collectionId |-> "c1"]}
    /\ groupMemberships = {}
    /\ \E held \in SUBSET SimpleKinds :
         simpleStores = [k \in SimpleKinds |->
                           IF k \in held THEN [x \in {SimpleId[k]} |-> SimpleRecord(k)]
                           ELSE EmptyFcn]
    \* a Policy is cached for every record the stores hold, or for none
    /\ \E cached \in {{}, DOMAIN documents \cup DOMAIN collections
                             \cup UNION {DOMAIN simpleStores[k] : k \in SimpleKinds}} :
         policies = [x \in cached |-> [read |-> TRUE]]
    /\ userMemberships = {}
    /\ team = [sharing |-> TRUE, domain |-> NULL]
    /\ task = IdleTask
    /\ log = << >>
    /\ lastEvent = NoEvent
    /\ pre = EmptyStores
    /\ before = EmptyStores
    /\ comment = NewComments

NextLifecycle ==
    \/ \E k \in SimpleKinds : OnSimpleCreate(k, SimpleRecord(k))
    \/ \E k \in SimpleKinds : OnSimpleDelete(k, SimpleId[k])
    \/ \E ev \in CollectionsCreateEvents : OnCollectionsCreate(ev)
    \/ \E c \in ColIds : OnCollectionsDelete(c)
    \/ \E d \in DocIds : OnDocumentsPermanentDelete(d)

SpecLifecycle == InitLifecycle /\ [][NextLifecycle]_vars

Undone(kind) ==
    /\ lastEvent'.name = EventName(kind, "delete")
    /\ Created(kind, lastEvent'.modelId)

\* C15 as stated: for comments, groups, pins, stars, subscriptions and
\* collections, the create of an identifier its store does not hold followed
\* by the delete of the same identifier leaves every store and the Policy
\* cache as they were before the create.
C15_CreateThenDeleteIsIdentity ==
    [][\A k \in SimpleKinds \cup {"collections"} :
          Undone(k) => Stores' = before]_vars

\* C15: create then delete of the same identifier restores every store and
\* the Policy cache for comments, groups, pins, stars and subscriptions; for
\* a collection it does so when the stores held no document of that
\* collection and no membership scoped to it.
C15_CreateThenDeleteRestoresUnlessCascade ==
    [][/\ \A k \in SimpleKinds : Undone(k) => Stores' = before
       /\ (/\ Undone("collections")
           /\ InCollection(before.documents, lastEvent'.modelId) = {}
           /\ RemoveAll(before.memberships, lastEvent'.modelId) = before.memberships)
          => Stores' = before]_vars

C15_Witness ==
    /\ lastEvent.name = "collections.delete"
    /\ lastEvent.undoes
    /\ InCollection(documents, lastEvent.modelId) = {}
    /\ lastEvent.modelId \in DOMAIN before.collections
    /\ lastEvent.modelId \notin DOMAIN collections

\* ======================================================================
\* Connection manager: transports and relays (SpecConn)
\* ======================================================================

\* lines 110-112: auth?.team?.domain ? ["websocket"] : ["websocket", "polling"]
AllowedTransports_AlwaysBoth(domain) == {"websocket", "polling"}

AllowedTransports(domain) ==
    IF domain # NULL THEN {"websocket"} ELSE {"websocket", "polling"}

\* "reconnect_attempt" of the manager of socket s (lines 108-114): the
\* handler writes the options of this.socket
ReconnectAttempt(s) ==
    /\ ~sockets[s].closed
    /\ ~sockets[s].connected
    /\ sockets' = IF socket # NoSocket
                  THEN [sockets EXCEPT ![socket].transports = AllowedTransports(team.domain)]
                  ELSE sockets
    /\ lastEvent' = [name |-> "reconnect_attempt"]
    /\ UNCHANGED <<socket, mounted, listening, pageVisible, storeVars, taskVars, syncVars, pre, comment>>

\* this.socket?.emit(name, event): what goes out, and on which socket
Relayed_AsJoin(sock, name, event) ==
    IF sock = NoSocket THEN << >>
    ELSE << [socket |-> sock, name |-> "join", event |-> event] >>

Relayed(sock, name, event) ==
    IF sock = NoSocket THEN << >>
    ELSE << [socket |-> sock, name |-> name, event |-> event] >>

\* "join" arrives on socket s (lines 516-518)
OnJoin(s, event) ==
    /\ sockets[s].connected
    /\ lastEvent' = [name |-> "join", event |-> event,
                     emitted |-> Relayed(socket, "join", event)]
    /\ UNCHANGED <<connVars, storeVars, taskVars, syncVars, pre, comment>>

\* "leave" arrives on socket s (lines 522-524)
OnLeave(s, event) ==
    /\ sockets[s].connected
    /\ lastEvent' = [name |-> "leave", event |-> event,
                     emitted |-> Relayed(socket, "leave", event)]
    /\ UNCHANGED <<connVars, storeVars, taskVars, syncVars, pre, comment>>

\* payloads of join and leave
RoomEvents == [roomId : {"r1", "r2"}]

NextConn ==
    \/ ComponentDidMount
    \/ ComponentWillUnmount
    \/ VisibilityChange
    \/ \E s \in 1..Len(sockets) : TransportConnect(s)
    \/ \E s \in 1..Len(sockets) : TransportDisconnect(s)
    \/ \E s \in 1..Len(sockets) : OnAuthenticated(s)
    \/ \E s \in 1..Len(sockets) : OnUnauthorized(s)
    \/ \E s \in 1..Len(sockets) : ReconnectAttempt(s)
    \/ \E s \in 1..Len(sockets) : \E ev \in RoomEvents : OnJoin(s, ev)
    \/ \E s \in 1..Len(sockets) : \E ev \in RoomEvents : OnLeave(s, ev)
    \/ \E s \in 1..Len(sockets) :
          \E ev \in {e \in TeamsUpdateEvents : "sharing" \notin DOMAIN e} :
              sockets[s].connected /\ OnTeamsUpdate(ev)

SpecConn == InitConn /\ [][NextConn]_vars

\* C16 as stated: while the team is domain-restricted no connection permits
\* polling, in any reachable state.
C16_NoPollingInDomainSession ==
    team.domain # NULL =>
        \A s \in 1..Len(sockets) : "polling" \notin sockets[s].transports

\* C16: a reconnect attempt sets the transports of the current connection to
\* exactly {websocket} when the team is then domain-restricted and to exactly
\* {websocket, polling} otherwise; a new connection starts with exactly
\* {websocket}; and no other step changes the transports of a connection.
C16_TransportsSetAtReconnectAttempt ==
    [][/\ (lastEvent'.name = "reconnect_attempt" /\ socket # NoSocket)
          => sockets'[socket].transports =
                IF team.domain # NULL THEN {"websocket"} ELSE {"websocket", "polling"}
       /\ Len(sockets') > Len(sockets)
          => sockets'[Len(sockets')].transports = {"websocket"}
       /\ \A s \in 1..Len(sockets) :
             sockets'[s].transports # sockets[s].transports
               => lastEvent'.name = "reconnect_attempt" /\ s = socket]_vars

C16_Witness ==
    /\ lastEvent.name = "reconnect_attempt"
    /\ socket # NoSocket
    /\ team.domain # NULL
    /\ Len(sockets) > 1
    /\ sockets[socket].transports = {"websocket"}

\* what the handler that ran last wrote to the transport
Emitted == IF "emitted" \in DOMAIN lastEvent THEN lastEvent.emitted ELSE << >>

\* C17: the join and leave handlers write exactly one message to the current
\* connection, with the name and the payload they received (nothing when the
\* reference is null), and no other handler writes anything.
C17_OnlyJoinAndLeaveAreRelayed ==
    IF lastEvent.name \in {"join", "leave"}
    THEN Emitted = IF socket = NoSocket THEN << >>
                   ELSE << [socket |-> socket, name |-> lastEvent.name,
                            event |-> lastEvent.event] >>
    ELSE Emitted = << >>

C17_Witness ==
    /\ lastEvent.name = "leave"
    /\ Len(Emitted) = 1
    /\ Emitted[1].name = "leave"
    /\ Emitted[1].socket = socket

\* ======================================================================
\* Events handled while the `entities` handler is suspended
\* (SpecDeleteRace, SpecUpdateRace)
\* ======================================================================

\* "documents.update" (lines 215-227). collection.updateDocument rewrites the
\* entry of the document in the collection's tree and leaves the set of its
\* documents as it is. `awaiting` notes where the `entities` handler stood.
OnDocumentsUpdate(event) ==
    /\ documents' = StoreAdd(documents, event)
    /\ lastEvent' = [name |-> "documents.update", event |-> event,
                     awaiting |-> Awaiting]
    /\ before' = Stores
    /\ UNCHANGED <<connVars, collections, memberships, groupMemberships, policies,
                   simpleStores, userMemberships, team, taskVars, pre, comment>>

\* payloads of one document descriptor
RaceEntitiesEvents == EntitiesEventsOf(1, 0)

\* the versions of a document on the server: retitled "b" at t1, and "a"
\* again at t2
ServerVersions == {[title |-> "b", updatedAt |-> "t1"], [title |-> "a", updatedAt |-> "t2"]}

\* what documents.fetch may return while events are in flight: the version
\* the events announce (t1) or the later one
RaceServerDocuments(id) ==
    {[id |-> id, title |-> v.title, updatedAt |-> v.updatedAt, collectionId |-> "c1",
      publishedAt |-> "t0", deletedAt |-> NULL] : v \in ServerVersions}

\* PartialWithId<Document> & { title, url } of documents.update: the event of
\* the version of t1
DocumentsUpdateEvents ==
    {[id |-> "d1", title |-> "b", url |-> "/doc/d1", updatedAt |-> "t1",
      collectionId |-> "c1"]}

InitRace ==
    /\ socket = NoSocket
    /\ sockets = << >>
    /\ mounted = "constructed"
    /\ listening = FALSE
    /\ pageVisible = TRUE
    /\ \E cached \in SUBSET DocIds :
         documents = [d \in cached |-> CachedDocument(d)]
    /\ collections = [c \in {"c1"} |-> CachedCollection(c, {})]
    /\ memberships = {}
    /\ groupMemberships = {}
    /\ policies = EmptyFcn
    /\ simpleStores = [k \in SimpleKinds |-> EmptyFcn]
    /\ userMemberships = {}
    /\ team = [sharing |-> TRUE, domain |-> NULL]
    /\ task = IdleTask
    /\ log = << >>
    /\ lastEvent = NoEvent
    /\ pre = Stores
    /\ before = Stores
    /\ comment = NewComments

\* the steps of one `entities` batch of RaceEntitiesEvents
NextBatch ==
    \/ \E ev \in RaceEntitiesEvents : OnEntities(ev)
    \/ \E id \in DocIds : \E doc \in RaceServerDocuments(id) : DocumentFetched(doc)
    \/ \E err \in Errors : DocumentFetchFailed(err)
    \/ \E list \in ServerDocumentLists : CollectionDocumentsFetched(list)
    \/ \E err \in Errors : CollectionFetchFailed(err)

NextDeleteRace ==
    \/ NextBatch
    \/ \E d \in DocIds : OnDocumentsPermanentDelete(d)

SpecDeleteRace == InitRace /\ [][NextDeleteRace]_vars

\* the refetch of document id has resolved
Resolved(id) ==
    \E n \in 1..Len(log) :
        log[n].op = "resolved" /\ log[n].kind = "document" /\ log[n].id = id

\* C18: when documents.permanent_delete for d is handled while the `entities`
\* handler is suspended on its refetch of d, d is absent from the store until
\* that refetch resolves and is present in the store once it has resolved.
C18_RefetchRestoresDeletedDocument ==
    (/\ lastEvent.name = "documents.permanent_delete"
     /\ lastEvent.awaiting = lastEvent.modelId)
      => IF Resolved(lastEvent.modelId)
         THEN lastEvent.modelId \in DOMAIN documents
         ELSE lastEvent.modelId \notin DOMAIN documents

C18_Witness ==
    /\ lastEvent.name = "documents.permanent_delete"
    /\ lastEvent.awaiting = lastEvent.modelId
    /\ lastEvent.modelId \in DOMAIN pre.documents
    /\ Resolved(lastEvent.modelId)
    /\ lastEvent.modelId \in DOMAIN documents

NextUpdateRace ==
    \/ NextBatch
    \/ \E ev \in DocumentsUpdateEvents : OnDocumentsUpdate(ev)

SpecUpdateRace == InitRace /\ [][NextUpdateRace]_vars

\* the record the refetch of document id resolved with
FetchedDocument(id) ==
    log[CHOOSE n \in 1..Len(log) :
            log[n].op = "resolved" /\ log[n].kind = "document" /\ log[n].id = id].document

\* C19: once the batch has ended and documents.update for a document the
\* batch refetched has been handled after the batch was entered, the store
\* holds for that document what it holds when the update is handled while
\* the refetch is in flight (the update merged first, the fetched record
\* second), whichever of the two came first.
C19_UpdateAndBatchConverge ==
    (/\ task.pc = "done"
     /\ lastEvent.name = "documents.update"
     /\ Resolved(lastEvent.event.id))
      => LET id == lastEvent.event.id
             inFlight == StoreAdd(StoreAdd(pre.documents, lastEvent.event),
                                  FetchedDocument(id))
         IN /\ id \in DOMAIN documents
            /\ documents[id] = inFlight[id]

\* ----------------------------------------------------------------------
\* Properties of the event handlers (checked under SpecEvents)
\* ----------------------------------------------------------------------

\* C6 (as claimed): after collections.delete for c, every document that was in
\* c has collectionId = null if it was never published and a non-null deletedAt
\* if it was, the collection record of c is gone, and no membership record of
\* any membership store refers to c.
C6_CollectionDeleteCascade ==
    [][lastEvent'.name = "collections.delete" =>
        LET c == lastEvent'.modelId IN
        /\ \A d \in DOMAIN documents :
              documents[d].collectionId = c =>
                  /\ d \in DOMAIN documents'
                  /\ IF documents[d].publishedAt = NULL
                     THEN documents'[d].collectionId = NULL
                     ELSE documents'[d].deletedAt # NULL
        /\ c \notin DOMAIN collections'
        /\ \A m \in memberships' \cup groupMemberships' : m.collectionId # c]_vars

\* ----------------------------------------------------------------------
\* Properties of the `entities` handler (checked under SpecEntities)
\* ----------------------------------------------------------------------

\* the handler has called fetch for this entity
Fetched(kind, id) ==
    \E n \in 1..Len(log) : log[n].op = "fetch" /\ log[n].kind = kind /\ log[n].id = id

\* the n-th entry of the log is a fetch of this kind refused with
\* AuthorizationError or NotFoundError
Refused(n, kind) ==
    /\ log[n].op = "rejected"
    /\ log[n].kind = kind
    /\ log[n].err \in {"AuthorizationError", "NotFoundError"}

\* descriptors of this id in a list
Count(list, id) == Cardinality({n \in 1..Len(list) : list[n].id = id})

\* the record of id is as it was when the handler was entered
Untouched(store, earlier, id) ==
    /\ id \in DOMAIN store <=> id \in DOMAIN earlier
    /\ id \in DOMAIN store => store[id] = earlier[id]

\* C1: a document descriptor whose updatedAt equals the cached document's
\* updatedAt causes no refetch of that document and leaves the cached record
\* unchanged, whatever fetchIfMissing is and whatever else is in the batch.
C1_CurrentDocumentNotRefetched ==
    lastEvent.name = "entities" =>
        \A k \in 1..Len(DocumentIds(lastEvent.event)) :
            LET desc == DocumentIds(lastEvent.event)[k] IN
            (/\ desc.id \in DOMAIN pre.documents
             /\ pre.documents[desc.id].updatedAt = desc.updatedAt)
            => /\ ~Fetched("document", desc.id)
               /\ desc.id \in DOMAIN documents
               /\ documents[desc.id] = pre.documents[desc.id]

\* C1 witness: a batch has run to its end in which the first descriptor was
\* current and the second document was refetched and stored
C1_Witness ==
    /\ task.pc = "done"
    /\ Len(DocumentIds(lastEvent.event)) = 2
    /\ DocumentIds(lastEvent.event)[1] = [id |-> "d1", updatedAt |-> "t0"]
    /\ "d1" \in DOMAIN pre.documents
    /\ pre.documents["d1"].updatedAt = "t0"
    /\ lastEvent.event.fetchIfMissing
    /\ \E n \in 1..Len(log) : log[n].op = "resolved" /\ log[n].id = "d2"

\* C2: when the refetch of a document descriptor is refused with
\* AuthorizationError or NotFoundError, the document is absent from the store
\* and the batch ends there: no later document descriptor and no collection
\* descriptor causes a refetch or a store mutation.
C2_RefusedDocumentEndsBatch ==
    \A n \in 1..Len(log) :
        Refused(n, "document") =>
            /\ n = Len(log)
            /\ task.pc = "done"
            /\ log[n].id \notin DOMAIN documents
            /\ \A k \in (task.i + 1)..Len(DocumentIds(task.event)) :
                  LET id == DocumentIds(task.event)[k].id IN
                  ~Fetched("document", id) /\ Untouched(documents, pre.documents, id)
            /\ \A c \in ColIds : ~Fetched("collection", c)
            /\ collections = pre.collections
            /\ memberships = pre.memberships

\* C2 witness: the refetch of the first of two documents, which was cached,
\* was refused while a stale collection descriptor was still to come
C2_Witness ==
    /\ Len(log) = 2
    /\ Refused(2, "document")
    /\ log[2].err = "AuthorizationError"
    /\ log[2].id = "d1"
    /\ "d1" \in DOMAIN pre.documents
    /\ Len(DocumentIds(task.event)) = 2
    /\ task.i = 1
    /\ "d2" \in DOMAIN pre.documents
    /\ DocumentIds(task.event)[2].updatedAt = "t1"
    /\ Len(CollectionIds(task.event)) = 1
    /\ CollectionIds(task.event)[1] = [id |-> "c1", updatedAt |-> "t1"]
    /\ "c1" \in DOMAIN collections
    /\ task.event.fetchIfMissing

\* C3: when the refetch of a document succeeds with a title different from the
\* title cached before (an uncached document counts) and a non-null
\* collectionId, the batch's collection list holds a descriptor of that
\* collection, and holds it once.
C3_TitleChangeListsCollectionOnce ==
    \A n \in 1..Len(log) :
        (/\ log[n].op = "resolved"
         /\ log[n].kind = "document"
         /\ log[n].collectionId # NULL
         /\ \/ log[n].id \notin DOMAIN pre.documents
            \/ pre.documents[log[n].id].title # log[n].title)
        => Count(CollectionIds(task.event), log[n].collectionId) = 1

\* C3 witness: two documents of collection c1 came back with a changed title,
\* one of them uncached, in a batch that listed no collection
C3_Witness ==
    /\ lastEvent.name = "entities"
    /\ "collectionIds" \notin DOMAIN lastEvent.event
    /\ "d1" \in DOMAIN pre.documents
    /\ "d2" \notin DOMAIN pre.documents
    /\ \E n, m \in 1..Len(log) :
          /\ log[n].op = "resolved" /\ log[n].id = "d1"
          /\ log[n].title = "b" /\ log[n].collectionId = "c1"
          /\ log[m].op = "resolved" /\ log[m].id = "d2"
          /\ log[m].collectionId = "c1"
    /\ CollectionIds(task.event) = << [id |-> "c1"] >>

\* the batch was ended by a refused fetch
Aborted == \E n \in 1..Len(log) : Refused(n, "document") \/ Refused(n, "collection")

\* C4 (as claimed): every collection descriptor that is reached gets a forced
\* refetch of the collection's document list unless the cached collection's
\* updatedAt equals the descriptor's, or the collection is absent or has no
\* documents cached and fetchIfMissing is false; so an uncached collection is
\* refetched when fetchIfMissing is true.
C4_StaleCollectionRefetched ==
    (task.pc = "done" /\ ~Aborted) =>
        \A j \in 1..Len(CollectionIds(task.event)) :
            LET desc == CollectionIds(task.event)[j]
                id == desc.id
                current == /\ id \in DOMAIN pre.collections
                           /\ pre.collections[id].updatedAt = Field(desc, "updatedAt")
                unwanted == /\ \/ id \notin DOMAIN pre.collections
                               \/ pre.collections[id].documents = {}
                            /\ ~task.event.fetchIfMissing
            IN ~(current \/ unwanted) => Fetched("collection", id)

\* C5: when the refetch of a collection's document list is refused with
\* AuthorizationError or NotFoundError, the collection record is gone, no
\* membership of that collection remains, and no later collection descriptor
\* of the batch is processed.
C5_RefusedCollectionEvicted ==
    \A n \in 1..Len(log) :
        Refused(n, "collection") =>
            /\ n = Len(log)
            /\ task.pc = "done"
            /\ log[n].id \notin DOMAIN collections
            /\ \A m \in memberships : m.collectionId # log[n].id
            /\ \A k \in (task.j + 1)..Len(CollectionIds(task.event)) :
                  LET id == CollectionIds(task.event)[k].id IN
                  ~Fetched("collection", id) /\ Untouched(collections, pre.collections, id)

\* C5 witness: the refetch of c1, first of two stale collections with
\* memberships, was refused
C5_Witness ==
    /\ Len(log) > 0
    /\ Refused(Len(log), "collection")
    /\ log[Len(log)].err = "NotFoundError"
    /\ log[Len(log)].id = "c1"
    /\ task.j = 1
    /\ Len(CollectionIds(task.event)) = 2
    /\ CollectionIds(task.event)[2] = [id |-> "c2", updatedAt |-> "t1"]
    /\ "c2" \in DOMAIN collections
    /\ collections["c2"].documents # {}
    /\ \E m \in pre.memberships : m.collectionId = "c1"
    /\ memberships = {[id |-> "m2", collectionId |-> "c2"]}

\* ----------------------------------------------------------------------
\* Properties of the connection manager (checked under SpecConn)
\* ----------------------------------------------------------------------

\* sockets created by the component that were never closed
OpenSockets == {s \in 1..Len(sockets) : ~sockets[s].closed}

\* a step in which the visibility listener ran checkConnection
CheckStep == listening /\ pageVisible' # pageVisible

\* C7: over any sequence of mount, visibility changes, transport
\* disconnects/reconnects and unmount, a visibility-triggered check creates at
\* most one connection, exactly one when the current connection is disconnected
\* and the page is visible, and at no time are two created connections open.
C7_OneConnectionPerCheck ==
    /\ [](Cardinality(OpenSockets) <= 1)
    /\ [][CheckStep =>
            LET created == Len(sockets') - Len(sockets) IN
            /\ created \in {0, 1}
            /\ (socket # NoSocket /\ Disconnected(sockets[socket]) /\ pageVisible')
                  => created = 1]_vars

\* C7 witness: a check has replaced a dropped connection with a second one
C7_Witness ==
    /\ lastEvent.name = "checkConnection"
    /\ Len(sockets) = 2
    /\ socket = 2
    /\ sockets[1].closed
    /\ OpenSockets = {2}

\* C8: checkConnection replaces the connection iff the current one is
\* disconnected and the page is visible: then the old socket is closed and a
\* fresh, new socket becomes the reference; otherwise reference and sockets are
\* untouched.
C8_CheckReplacesIff ==
    [][CheckStep =>
        IF socket # NoSocket /\ ~sockets[socket].connected /\ pageVisible'
        THEN /\ Len(sockets') = Len(sockets) + 1
             /\ socket' = Len(sockets')
             /\ socket' # socket
             /\ sockets'[socket].closed
             /\ sockets'[socket'] = NewSocket
             /\ \A s \in 1..Len(sockets) :
                    s # socket => sockets'[s] = sockets[s]
        ELSE socket' = socket /\ sockets' = sockets]_vars

\* C8 witness: a check ran while the page was visible and the connection
\* had dropped after being connected and authenticated
C8_Witness ==
    /\ lastEvent.name = "checkConnection"
    /\ pageVisible
    /\ Len(sockets) = 3
    /\ socket = 3
    /\ sockets[2].signal = "authenticated"
    /\ sockets[2].closed

\* C9 (as claimed): after teardown the connection is unauthenticated and
\* disconnected, the shared reference is null, and the listener is gone.
C9_TeardownReleasesReference ==
    mounted = "unmounted" =>
        /\ socket = NoSocket
        /\ ~listening
        /\ \A s \in 1..Len(sockets) :
              sockets[s].closed /\ ~sockets[s].authenticated

\* C10: the current connection's authenticated flag is true only if the last
\* of authenticated / unauthorized / teardown seen on it was `authenticated`;
\* a new connection starts unauthenticated; `authenticated` sets the flag;
\* `unauthorized` clears it, shows an error notice and rethrows.
C10_AuthenticatedOnlyByAck ==
    /\ [](socket # NoSocket /\ sockets[socket].authenticated
            => sockets[socket].signal = "authenticated")
    /\ [][Len(sockets') > Len(sockets)
            => ~sockets'[Len(sockets')].authenticated]_vars
    /\ [][lastEvent'.name = "authenticated" /\ socket # NoSocket
            => sockets'[socket].authenticated]_vars
    /\ [][lastEvent'.name = "unauthorized" /\ socket # NoSocket
            => /\ ~sockets'[socket].authenticated
               /\ lastEvent'.toast
               /\ lastEvent'.thrown]_vars

\* C10 witness: a replacement connection has been acknowledged after the
\* previous one was refused
C10_Witness ==
    /\ socket = 2
    /\ sockets[2].authenticated
    /\ sockets[1].signal = "unauthorized"

\* C20: in one batch the log holds no document fetch after a collection
\* fetch; once a collection fetch is issued every document descriptor has
\* been fetched or skipped; and when the batch ends without a refused fetch,
\* every descriptor pushed during the document loop has been through the
\* collection loop: it was fetched wherever the loop's own guards say so.
C20_CollectionsAfterDocuments ==
    lastEvent.name = "entities" =>
        /\ \A n, m \in 1..Len(log) :
              (n < m /\ log[n].kind = "collection") => log[m].kind = "collection"
        /\ (\E n \in 1..Len(log) : log[n].kind = "collection")
              => \A k \in 1..Len(DocumentIds(lastEvent.event)) :
                    LET desc == DocumentIds(lastEvent.event)[k] IN
                    \/ Fetched("document", desc.id)
                    \/ DocumentSkipped(pre.documents, desc, lastEvent.event.fetchIfMissing)
        /\ (task.pc = "done" /\ ~Aborted)
              => /\ task.j = Len(CollectionIds(task.event)) + 1
                 /\ \A j \in (Len(CollectionIds(lastEvent.event)) + 1)
                                ..Len(CollectionIds(task.event)) :
                       LET desc == CollectionIds(task.event)[j] IN
                       CollectionFetched(pre.collections, desc, task.event.fetchIfMissing)
                         => Fetched("collection", desc.id)

C20_Witness ==
    /\ lastEvent.name = "entities"
    /\ task.pc = "done"
    /\ ~Aborted
    /\ Len(DocumentIds(lastEvent.event)) = 2
    /\ Len(CollectionIds(task.event)) > Len(CollectionIds(lastEvent.event))
    /\ Fetched("collection", CollectionIds(task.event)[Len(CollectionIds(task.event))].id)

\* C21: in a batch whose fetchIfMissing is false no fetch is issued for a
\* document that the store did not hold, and every document the store holds
\* during the batch was held when the batch was entered.
C21_MissingDocumentNotFetched ==
    (lastEvent.name = "entities" /\ ~lastEvent.event.fetchIfMissing)
      => /\ DOMAIN documents \subseteq DOMAIN pre.documents
         /\ \A n \in 1..Len(log) :
               (log[n].op = "fetch" /\ log[n].kind = "document")
                 => log[n].id \in DOMAIN pre.documents

\* C21 witness: a batch with fetchIfMissing false has ended that listed an
\* uncached document and a stale cached one; the cached one was refetched,
\* the uncached one is still absent
C21_Witness ==
    /\ lastEvent.name = "entities"
    /\ ~lastEvent.event.fetchIfMissing
    /\ task.pc = "done"
    /\ \E a, b \in 1..Len(DocumentIds(lastEvent.event)) :
          LET missing == DocumentIds(lastEvent.event)[a].id
              held == DocumentIds(lastEvent.event)[b].id
          IN /\ missing \notin DOMAIN pre.documents
             /\ missing \notin DOMAIN documents
             /\ held \in DOMAIN pre.documents
             /\ Resolved(held)

\* the step appends the rejection of a refetch with an error that is neither
\* AuthorizationError nor NotFoundError
SwallowedStep(kind) ==
    /\ Len(log') > Len(log)
    /\ log'[Len(log) + 1].op = "rejected"
    /\ log'[Len(log) + 1].kind = kind
    /\ log'[Len(log) + 1].err \notin {"AuthorizationError", "NotFoundError"}

\* no document descriptor of ev from position a to position b needs a fetch
NoDocumentDue(ev, a, b) ==
    \A k \in a..b : DocumentSkipped(documents, DocumentIds(ev)[k], ev.fetchIfMissing)

\* no collection descriptor of ev from position a to position b gets a fetch
NoCollectionDue(ev, a, b) ==
    \A k \in a..b : ~CollectionFetched(collections, CollectionIds(ev)[k], ev.fetchIfMissing)

\* C22: when a refetch of the `entities` handler is rejected with an error
\* that is neither AuthorizationError nor NotFoundError, every store is left
\* as it is, no notice is shown and nothing is thrown, the payload's
\* collection list gains no descriptor, and the handler goes on to the next
\* descriptor that needs a fetch: it suspends on that one, or ends when there
\* is none.
C22_OtherFailureIsSwallowed ==
    [][/\ SwallowedStep("document") =>
            LET ev == task.event
                nd == Len(DocumentIds(ev))
                nc == Len(CollectionIds(ev))
            IN /\ UNCHANGED <<storeVars, syncVars>>
               /\ ~log'[Len(log) + 1].toast
               /\ ~log'[Len(log) + 1].thrown
               /\ task'.event = ev
               /\ CASE task'.pc = "awaitDocument" ->
                         /\ task'.i \in (task.i + 1)..nd
                         /\ NoDocumentDue(ev, task.i + 1, task'.i - 1)
                         /\ ~NoDocumentDue(ev, task'.i, task'.i)
                    [] task'.pc = "awaitCollection" ->
                         /\ NoDocumentDue(ev, task.i + 1, nd)
                         /\ task'.j \in 1..nc
                         /\ NoCollectionDue(ev, 1, task'.j - 1)
                         /\ ~NoCollectionDue(ev, task'.j, task'.j)
                    [] task'.pc = "done" ->
                         /\ NoDocumentDue(ev, task.i + 1, nd)
                         /\ NoCollectionDue(ev, 1, nc)
                    [] OTHER -> FALSE
       /\ SwallowedStep("collection") =>
            LET ev == task.event
                nc == Len(CollectionIds(ev))
            IN /\ UNCHANGED <<storeVars, syncVars>>
               /\ ~log'[Len(log) + 1].toast
               /\ ~log'[Len(log) + 1].thrown
               /\ task'.event = ev
               /\ CASE task'.pc = "awaitCollection" ->
                         /\ task'.j \in (task.j + 1)..nc
                         /\ NoCollectionDue(ev, task.j + 1, task'.j - 1)
                         /\ ~NoCollectionDue(ev, task'.j, task'.j)
                    [] task'.pc = "done" ->
                         NoCollectionDue(ev, task.j + 1, nc)
                    [] OTHER -> FALSE]_vars

\* a refetch of kind `kind` was rejected with "Error" at position n of the log
\* and position n + 1 holds the fetch of the next descriptor
SwallowedThenFetched(kind) ==
    \E n \in 1..(Len(log) - 1) :
        /\ log[n].op = "rejected" /\ log[n].kind = kind /\ log[n].err = "Error"
        /\ log[n + 1].op = "fetch"
        /\ log[n + 1].id # log[n].id

\* C22 witness: in one batch the refetch of a cached document failed with
\* "Error" and the next descriptor was fetched, the document is held as it
\* was, and later the refetch of a collection failed with "Error" and the
\* next collection was fetched
C22_Witness ==
    /\ lastEvent.name = "entities"
    /\ SwallowedThenFetched("document")
    /\ SwallowedThenFetched("collection")
    /\ \E n \in 1..Len(log) :
          /\ log[n].op = "rejected" /\ log[n].kind = "document" /\ log[n].err = "Error"
          /\ log[n].id \in DOMAIN documents
          /\ documents[log[n].id] = pre.documents[log[n].id]
    /\ collections = pre.collections
    /\ memberships = pre.memberships

\* ======================================================================
\* Comment resolution (class Comment, lines 600-662) (SpecComment)
\* ======================================================================

\* if (value): null, undefined and the empty string are falsy
Truthy(v) == v \notin {NULL, UNDEF, ""}

\* lines 637-642: the message resolve() throws a ValidationError with, or
\* NULL when it throws nothing
ResolveError_RepliesAllowed(c) ==
    IF Truthy(c.resolvedById) THEN "Comment is already resolved"
    ELSE NULL

ResolveError(c) ==
    IF Truthy(c.resolvedById) THEN "Comment is already resolved"
    ELSE IF Truthy(c.parentCommentId) THEN "Cannot resolve a reply"
    ELSE NULL

\* lines 655-657: the message unresolve() throws a ValidationError with, or
\* NULL when it throws nothing
UnresolveError(c) ==
    IF ~Truthy(c.resolvedById) THEN "Comment is not resolved"
    ELSE NULL

\* comment.resolve(resolvedBy, options) on comment id; `saved` is whether
\* the promise of this.save(options) is fulfilled
Resolve(id, resolvedBy, saved) ==
    LET message == ResolveError(comment[id]) IN
    /\ IF message # NULL
       THEN /\ UNCHANGED comment
            /\ lastEvent' = [name |-> "Comment.resolve", id |-> id,
                             resolvedBy |-> resolvedBy, thrown |-> "ValidationError",
                             message |-> message, saved |-> FALSE]
       ELSE /\ comment' = [comment EXCEPT ![id].resolvedById = resolvedBy.id,
                                          ![id].resolvedBy = resolvedBy]
            /\ lastEvent' = [name |-> "Comment.resolve", id |-> id,
                             resolvedBy |-> resolvedBy, thrown |-> NULL,
                             message |-> NULL, saved |-> saved]
    /\ message # NULL => ~saved
    /\ UNCHANGED <<connVars, storeVars, taskVars, syncVars, pre>>

\* comment.unresolve(options) on comment id
Unresolve(id, saved) ==
    LET message == UnresolveError(comment[id]) IN
    /\ IF message # NULL
       THEN /\ UNCHANGED comment
            /\ lastEvent' = [name |-> "Comment.unresolve", id |-> id,
                             thrown |-> "ValidationError", message |-> message,
                             saved |-> FALSE]
       ELSE /\ comment' = [comment EXCEPT ![id].resolvedById = NULL,
                                          ![id].resolvedBy = NoUser]
            /\ lastEvent' = [name |-> "Comment.unresolve", id |-> id,
                             thrown |-> NULL, message |-> NULL, saved |-> saved]
    /\ message # NULL => ~saved
    /\ UNCHANGED <<connVars, storeVars, taskVars, syncVars, pre>>

\* the User instances a caller may pass
Users == {[id |-> u] : u \in UserIds}

\* the comment a reply may answer
ParentIds == {"cm0"}

InitComment ==
    /\ socket = NoSocket
    /\ sockets = << >>
    /\ mounted = "constructed"
    /\ listening = FALSE
    /\ pageVisible = TRUE
    /\ documents = EmptyFcn
    /\ collections = EmptyFcn
    /\ memberships = {}
    /\ groupMemberships = {}
    /\ policies = EmptyFcn
    /\ simpleStores = [k \in SimpleKinds |-> EmptyFcn]
    /\ userMemberships = {}
    /\ team = [sharing |-> TRUE, domain |-> NULL]
    /\ task = IdleTask
    /\ log = << >>
    /\ lastEvent = NoEvent
    /\ pre = EmptyStores
    /\ before = EmptyStores
    /\ \E parents \in [CommentIds -> ParentIds \cup {NULL}] :
          comment = [c \in CommentIds |-> NewComment(c, parents[c])]

NextComment ==
    \/ \E id \in CommentIds : \E u \in Users : \E saved \in BOOLEAN : Resolve(id, u, saved)
    \/ \E id \in CommentIds : \E saved \in BOOLEAN : Unresolve(id, saved)

SpecComment == InitComment /\ [][NextComment]_vars

\* the step was a call of method `name` that threw nothing
Succeeded(name) == lastEvent'.name = name /\ lastEvent'.thrown = NULL

\* the step was a call of method `name` that threw
Rejected(name) == lastEvent'.name = name /\ lastEvent'.thrown # NULL

\* C23: resolve() succeeds only on a comment that is unresolved and is not a
\* reply, and then records the resolving user; unresolve() succeeds only on a
\* resolved comment, and then clears both fields; a rejected call throws a
\* ValidationError and leaves resolvedById and resolvedBy of every comment as
\* they were; and always resolvedById is null exactly when resolvedBy is null.
C23_ResolutionIsGuarded ==
    /\ [](\A c \in CommentIds :
             (comment[c].resolvedById = NULL) <=> (comment[c].resolvedBy = NoUser))
    /\ [][/\ Succeeded("Comment.resolve") =>
               LET c == lastEvent'.id IN
               /\ comment[c].resolvedById = NULL
               /\ comment[c].parentCommentId = NULL
               /\ comment'[c].resolvedById = lastEvent'.resolvedBy.id
               /\ comment'[c].resolvedBy = lastEvent'.resolvedBy
          /\ Succeeded("Comment.unresolve") =>
               LET c == lastEvent'.id IN
               /\ comment[c].resolvedById # NULL
               /\ comment'[c].resolvedById = NULL
               /\ comment'[c].resolvedBy = NoUser
          /\ (Rejected("Comment.resolve") \/ Rejected("Comment.unresolve")) =>
               /\ lastEvent'.thrown = "ValidationError"
               /\ comment' = comment]_vars

\* C23 witness: a comment resolved by one user has just refused a resolve by
\* another user and still names the first, while a reply is unresolved
C23_Witness ==
    /\ lastEvent.name = "Comment.resolve"
    /\ lastEvent.thrown = "ValidationError"
    /\ lastEvent.message = "Comment is already resolved"
    /\ comment[lastEvent.id].resolvedById # NULL
    /\ comment[lastEvent.id].resolvedById # lastEvent.resolvedBy.id
    /\ \E r \in CommentIds :
          comment[r].parentCommentId # NULL /\ comment[r].resolvedById = NULL

====
